---- MODULE Spec2Model ----
(***************************************************************************)
(* Baseline & anomaly scoring engine of EventLogger (IDS.py and            *)
(* activity_generator.py).                                                 *)
(*                                                                         *)
(* Python numbers are modelled as exact rationals [num, den] in lowest     *)
(* terms (binary floating-point rounding is not modelled).  A Python dict  *)
(* is a sequence of [key, val] pairs in insertion order; an inner dict is  *)
(* a function from its string keys.  None is <<>> and a present optional   *)
(* value v is <<v>>; an empty text field of an input line is <<>> too.     *)
(***************************************************************************)
EXTENDS Integers, Sequences, FiniteSets, TLC

VARIABLES
    pc,               \* position in the flow being run
    err,              \* "" or the name of the exception that ended the flow
    events_file,      \* lines of the event-definition file read by parse_events
    stats_file,       \* lines of the statistics file read by parse_stats
    events,           \* EventCatalog: parse_events' result
    stats,            \* StatisticsTable: parse_stats' result
    inconsistencies,  \* validate_consistency's result
    basestats,        \* Baseline: cal_basestats' result
    threshold,        \* cal_threshold's result
    days,             \* number of days to generate
    event_log,        \* generate_event_data's result
    pools,            \* the two pools generate_event_data drew, normalized
    event_stats,      \* the statistics source handed to cal_dailycounter
    dailycounter,     \* cal_dailycounter's result
    basestats_file,   \* activity_generator.py: lines of the file read by parse_basestats
    ag_basestats,     \* activity_generator.py: parse_basestats' result
    samples,          \* activity_generator.py: what random.gauss returned, by day and event
    all_activities,   \* activity_generator.py: generate_activities' result
    analysis_results, \* activity_generator.py: analyze_activities' result
    user_input,       \* what the user will type at the prompts of the later rounds
    counter,          \* the number of rounds completed
    daily_total       \* analysis_events' second result

buildVars == <<events_file, stats_file, events, stats, inconsistencies, basestats>>
genVars == <<days, pools, event_log>>
scoreVars == <<event_stats, dailycounter>>
agVars == <<basestats_file, ag_basestats, samples, all_activities, analysis_results>>

mainVars == <<user_input, counter, daily_total>>

vars == <<pc, err, buildVars, threshold, genVars, scoreVars, agVars, mainVars>>

-----------------------------------------------------------------------------
(* Bounds of the model *)

\* most lines in an input file
MaxLines == 2
\* most days of one generation run
MaxDays == 3
\* largest raw sample drawn for a pool
MaxRaw == 1
\* most days of a log handed to the scorer
MaxScoreDays == 2

-----------------------------------------------------------------------------
(* Constants of the program *)

\* round(event_value, 2)
RoundDigits == 2
\* random.randint(0, 3000) and random.randint(0, 100000)
ContPoolMax == 3000
DiscPoolMax == 100000
\* statistics.stdev needs at least two values
MinSamples == 2
\* activity_generator.py: the bounds used when min or max is None
DefaultMin == 1
DefaultMax == 10000

-----------------------------------------------------------------------------
(* Exact rational arithmetic *)

Abs(x) == IF x < 0 THEN -x ELSE x

RECURSIVE GCD(_, _)
GCD(a, b) == IF b = 0 THEN a ELSE GCD(b, a % b)

Rat(n, d) ==
    LET g == GCD(Abs(n), Abs(d))
        s == IF d < 0 THEN -1 ELSE 1
    IN  [num |-> (s * n) \div g, den |-> (s * d) \div g]

Num(i) == [num |-> i, den |-> 1]

RAdd(a, b) == Rat(a.num * b.den + b.num * a.den, a.den * b.den)
RSub(a, b) == Rat(a.num * b.den - b.num * a.den, a.den * b.den)
RMul(a, b) == Rat(a.num * b.num, a.den * b.den)
RDiv(a, b) == Rat(a.num * b.den, a.den * b.num)
RAbs(a) == [num |-> Abs(a.num), den |-> a.den]
RLess(a, b) == a.num * b.den < b.num * a.den
RLeq(a, b) == a.num * b.den <= b.num * a.den
IsInt(a) == a.den = 1

\* Op applied to the value of v, v being evaluated once
Bind(v, Op(_)) == CHOOSE y \in {Op(x) : x \in {v}} : TRUE

RSign(a) == IF a.num > 0 THEN 1 ELSE IF a.num < 0 THEN -1 ELSE 0
RFloor(a) == a.num \div a.den

(* The real number base + sgn * sqrt(sq), for rationals base and sq >= 0    *)
(* and a sign sgn, compared with a rational c by comparing squares.         *)
SurdGE(base, sgn, sq, c) ==
    Bind(RSub(c, base),
         LAMBDA r :
            IF sgn >= 0
            THEN r.num <= 0 \/ RLeq(RMul(r, r), sq)
            ELSE r.num <= 0 /\ RLeq(sq, RMul(r, r)))

SurdGT(base, sgn, sq, c) ==
    Bind(RSub(c, base),
         LAMBDA r :
            IF sgn >= 0
            THEN r.num < 0 \/ RLess(RMul(r, r), sq)
            ELSE r.num < 0 /\ RLess(sq, RMul(r, r)))

\* the least natural number m >= from with m * m >= sq
RECURSIVE RootBound(_, _)
RootBound(sq, from) ==
    IF from * from * sq.den >= sq.num THEN from ELSE RootBound(sq, from + 1)

\* the largest k in lo..(hi - 1) with base + sgn * sqrt(sq) >= k / p, given
\* that lo is one and hi is not
RECURSIVE SurdFloorIn(_, _, _, _, _, _)
SurdFloorIn(base, sgn, sq, p, lo, hi) ==
    IF hi - lo <= 1 THEN lo
    ELSE Bind((lo + hi) \div 2,
              LAMBDA mid :
                 IF SurdGE(base, sgn, sq, Rat(mid, p))
                 THEN SurdFloorIn(base, sgn, sq, p, mid, hi)
                 ELSE SurdFloorIn(base, sgn, sq, p, lo, mid))

\* the multiple k / p of 1 / p nearest to base + sgn * sqrt(sq), a tie going
\* to the even k
SurdRound(base, sgn, sq, p) ==
    Bind(SurdFloorIn(base, sgn, sq, p,
                     RFloor(RMul(base, Num(p))) - RootBound(sq, 0) * p,
                     RFloor(RMul(base, Num(p))) + RootBound(sq, 0) * p + 1),
         LAMBDA k :
            IF SurdGT(base, sgn, sq, Rat(2 * k + 1, 2 * p)) THEN Rat(k + 1, p)
            ELSE IF SurdGE(base, sgn, sq, Rat(2 * k + 1, 2 * p))
                 THEN (IF k % 2 = 0 THEN Rat(k, p) ELSE Rat(k + 1, p))
                 ELSE Rat(k, p))

RECURSIVE Pow10(_)
Pow10(n) == IF n = 0 THEN 1 ELSE 10 * Pow10(n - 1)

\* Python's round(x, ndigits) of x = base + sgn * sqrt(sq)
RoundTo(base, sgn, sq, ndigits) ==
    Bind(<<base, sq, Pow10(ndigits)>>,
         LAMBDA a : SurdRound(a[1], sgn, a[2], a[3]))

-----------------------------------------------------------------------------
(* Python dict, insertion ordered *)

Keys(d) == {d[i].key : i \in DOMAIN d}
Has(d, k) == k \in Keys(d)
Get(d, k) == d[CHOOSE i \in DOMAIN d : d[i].key = k].val
Put(dict, k, v) ==
    Bind(dict,
         LAMBDA d :
            IF Has(d, k)
            THEN [i \in DOMAIN d |-> IF d[i].key = k THEN [key |-> k, val |-> v] ELSE d[i]]
            ELSE Append(d, [key |-> k, val |-> v]))

None == <<>>
Some(v) == <<v>>

\* sequences over S of length at most n whose elements have distinct names
RECURSIVE DistinctSeqs(_, _)
DistinctSeqs(S, n) ==
    IF n = 0 THEN {<<>>}
    ELSE LET shorter == DistinctSeqs(S, n - 1)
         IN  shorter \cup
             {Append(q, l) : <<q, l>> \in
                 {p \in shorter \X S :
                     /\ Len(p[1]) = n - 1
                     /\ \A i \in DOMAIN p[1] : p[1][i].name # p[2].name}}

-----------------------------------------------------------------------------
(* Inputs *)

Names == {"Logins", "Time online", "Emails sent"}

\* (type, min text, max text, weight text) of an event-definition line
EventProfiles ==
    { <<"C", None, None, 1>>,
      <<"C", Some(Num(0)), Some(Num(0)), 1>>,
      <<"C", Some(Num(2)), Some(Num(8)), 2>>,
      <<"D", Some(Num(0)), None, 3>> }

EventLines ==
    {[name |-> n, type |-> p[1], min |-> p[2], max |-> p[3], weight |-> p[4]] :
        n \in Names, p \in EventProfiles}

\* (mean, standard deviation) of a statistics line
StatProfiles == { <<Num(5), Num(1)>>, <<Num(9), Num(0)>>, <<Rat(9, 2), Rat(3, 2)>> }

StatLines ==
    {[name |-> n, mean |-> p[1], std |-> p[2]] : n \in Names, p \in StatProfiles}

EventFiles == DistinctSeqs(EventLines, MaxLines)
StatFiles == DistinctSeqs(StatLines, MaxLines)

-----------------------------------------------------------------------------
(* IDS.py *)

\* float(text) if text else 0.0, and int(text) if text else int(0)
ParseBound(text) == IF text # <<>> THEN Some(text[1]) ELSE Some(Num(0))

RECURSIVE parse_events_from(_, _, _)
parse_events_from(lines, i, acc) ==
    IF i > Len(lines) THEN acc
    ELSE LET line == lines[i]
         IN  parse_events_from(lines, i + 1,
                 Put(acc, line.name,
                     [Type |-> line.type,
                      Min |-> ParseBound(line.min),
                      Max |-> ParseBound(line.max),
                      Weight |-> line.weight]))

parse_events(lines) == parse_events_from(lines, 1, <<>>)

RECURSIVE parse_stats_from(_, _, _)
parse_stats_from(lines, i, acc) ==
    IF i > Len(lines) THEN acc
    ELSE LET line == lines[i]
         IN  parse_stats_from(lines, i + 1,
                 Put(acc, line.name, [Mean |-> line.mean, Std_dev |-> line.std]))

parse_stats(lines) == parse_stats_from(lines, 1, <<>>)

RECURSIVE sum_weights(_, _)
sum_weights(d, i) ==
    IF i > Len(d) THEN 0 ELSE d[i].val["Weight"] + sum_weights(d, i + 1)

\* mutant: the doubling is done inside the loop
RECURSIVE doubled_in_loop(_, _, _)
doubled_in_loop(d, i, t) ==
    IF i > Len(d) THEN t ELSE doubled_in_loop(d, i + 1, (t + d[i].val["Weight"]) * 2)

cal_threshold_doubled_in_loop(d) == doubled_in_loop(d, 1, 0)

cal_threshold(d) == sum_weights(d, 1) * 2

MismatchMessage == <<"Mismatch in event names between Events and Stats files.">>
RangeMessage(name) == <<name, "mean is outside of specified min/max range.">>

RECURSIVE range_messages(_, _, _)
range_messages(ev, st, i) ==
    IF i > Len(ev) THEN <<>>
    ELSE LET event == ev[i].val
             rest == range_messages(ev, st, i + 1)
         IN  IF /\ Has(st, ev[i].key)
                /\ event.Type = "C"
                /\ event.Min # None
                /\ event.Max # None
                /\ \/ RLess(Get(st, ev[i].key).Mean, event.Min[1])
                   \/ RLess(event.Max[1], Get(st, ev[i].key).Mean)
             THEN <<RangeMessage(ev[i].key)>> \o rest
             ELSE rest

\* mutant: one mismatch message per name missing on either side
RECURSIVE repeat_mismatch(_)
repeat_mismatch(n) == IF n = 0 THEN <<>> ELSE <<MismatchMessage>> \o repeat_mismatch(n - 1)

validate_consistency_per_name(ev, st) ==
    repeat_mismatch(Cardinality((Keys(ev) \ Keys(st)) \cup (Keys(st) \ Keys(ev))))
        \o range_messages(ev, st, 1)

validate_consistency(ev, st) ==
    (IF Keys(ev) # Keys(st) THEN <<MismatchMessage>> ELSE <<>>)
        \o range_messages(ev, st, 1)

\* mutant: the two bounds are taken from each other's field
combined_entry_bounds_swapped(stat_values, event) ==
    [Mean |-> stat_values.Mean,
     Std_dev |-> stat_values.Std_dev,
     Min |-> event.Max,
     Max |-> event.Min,
     Weight |-> event.Weight,
     Type |-> event.Type]

combined_entry(stat_values, event) ==
    [Mean |-> stat_values.Mean,
     Std_dev |-> stat_values.Std_dev,
     Min |-> event.Min,
     Max |-> event.Max,
     Weight |-> event.Weight,
     Type |-> event.Type]

RECURSIVE cal_basestats_from(_, _, _, _)
cal_basestats_from(ev, st, i, acc) ==
    IF i > Len(st) THEN acc
    ELSE IF Has(ev, st[i].key)
         THEN cal_basestats_from(ev, st, i + 1,
                  Put(acc, st[i].key, combined_entry(st[i].val, Get(ev, st[i].key))))
         ELSE cal_basestats_from(ev, st, i + 1, acc)

cal_basestats(ev, st) == cal_basestats_from(ev, st, 1, <<>>)

RECURSIVE SeqSum(_, _)
SeqSum(vals, i) == IF i > Len(vals) THEN 0 ELSE vals[i] + SeqSum(vals, i + 1)

RECURSIVE SeqSumSq(_, _)
SeqSumSq(vals, i) ==
    IF i > Len(vals) THEN 0 ELSE vals[i] * vals[i] + SeqSumSq(vals, i + 1)

(* statistics.mean and statistics.stdev of a list of integers.  The sample  *)
(* standard deviation is kept as its square, var: std_dev = sqrt(var).      *)
(* statistics.mean raises on an empty list, statistics.stdev on fewer than  *)
(* two values.                                                              *)
get_mean_std(vals) ==
    LET n == Len(vals)
    IN  IF n < MinSamples
        THEN [err |-> "StatisticsError", mean |-> Num(0), var |-> Num(0)]
        ELSE [err |-> "",
              mean |-> Rat(SeqSum(vals, 1), n),
              var |-> Rat(n * SeqSumSq(vals, 1) - SeqSum(vals, 1) * SeqSum(vals, 1),
                          n * (n - 1))]

\* round(event_value, 2) of a continuous event, round(event_value) of a discrete one
\* mutant: the Discrete branch rounds to 2 decimals as the Continuous one does
Digits_continuous_only(datatype) == RoundDigits

\* the ndigits of round(): 2 for a Continuous event, none for a Discrete one
Digits(datatype) == IF datatype = "C" THEN RoundDigits ELSE 0

(* zscore = (raw - pool mean) / pool std_dev, kept as its sign and its      *)
(* square; the division raises when the pool's std_dev is 0.                *)
zscore(raw, pool) ==
    IF pool.var.num = 0
    THEN [err |-> "ZeroDivisionError", sgn |-> 0, sq |-> Num(0)]
    ELSE [err |-> "",
          sgn |-> RSign(RSub(Num(raw), pool.mean)),
          sq |-> RDiv(RMul(RSub(Num(raw), pool.mean), RSub(Num(raw), pool.mean)),
                      pool.var)]

(* A pool of raw samples with what the generator derives from it: its mean  *)
(* and std_dev, and the zscore of each day's sample.                        *)
normalized(vals) ==
    Bind(get_mean_std(vals),
         LAMBDA pool :
            [err |-> pool.err,
             z |-> IF pool.err # "" THEN <<>>
                   ELSE [day \in DOMAIN vals |-> zscore(vals[day], pool)]])

\* event_value = round(zscore * std_dev + mean_val, ...)
event_value(entry, z) ==
    IF z.err # "" THEN [err |-> z.err, val |-> Num(0)]
    ELSE [err |-> "",
          val |-> RoundTo(entry.Mean,
                          z.sgn * RSign(entry.Std_dev),
                          RMul(RMul(entry.Std_dev, entry.Std_dev), z.sq),
                          Digits(entry.Type))]

\* the loop over basestats.items() of one day
RECURSIVE daily_events_from(_, _, _, _, _, _)
daily_events_from(bs, i, day, cont, disc, acc) ==
    IF i > Len(bs) THEN [err |-> "", val |-> acc]
    ELSE Bind(IF bs[i].val.Type = "C"
              THEN event_value(bs[i].val, cont.z[day])
              ELSE event_value(bs[i].val, disc.z[day]),
              LAMBDA v :
                 IF v.err # "" THEN [err |-> v.err, val |-> acc]
                 ELSE daily_events_from(bs, i + 1, day, cont, disc,
                          Put(Put(acc, "Day", Num(day)), bs[i].key, v.val)))

\* the loop over the days
RECURSIVE event_log_from(_, _, _, _, _, _)
event_log_from(bs, day, total_num_days, cont, disc, acc) ==
    IF day > total_num_days THEN [err |-> "", val |-> acc]
    ELSE Bind(daily_events_from(bs, 1, day, cont, disc, <<>>),
              LAMBDA d :
                 IF d.err # "" THEN [err |-> d.err, val |-> <<>>]
                 ELSE event_log_from(bs, day + 1, total_num_days, cont, disc,
                                     Append(acc, d.val)))

(* generate_event_data for the pools random.randint drew, each of           *)
(* total_num_days raw samples: disc = normalized(random_discrete_vals) and  *)
(* cont = normalized(random_cont_vals).                                     *)
generate_event_data(bs, total_num_days, disc, cont) ==
    IF cont.err # "" THEN [err |-> cont.err, val |-> <<>>]
    ELSE IF disc.err # "" THEN [err |-> disc.err, val |-> <<>>]
    ELSE event_log_from(bs, 1, total_num_days, cont, disc, <<>>)

\* mutant: a total equal to the threshold is flagged too
event_flag_at_threshold(anomaly_sum, thr) ==
    IF RLeq(Num(thr), anomaly_sum) THEN "Flagged" ELSE "Okay"

\* event_flag = 'Okay', then 'Flagged' if anomaly_sum > threshold
event_flag(anomaly_sum, thr) ==
    IF RLess(Num(thr), anomaly_sum) THEN "Flagged" ELSE "Okay"

\* (abs(mean - event_value) / std_dev) * weight
anomaly_score(stat_values, value) ==
    IF {"Mean", "Std Dev", "Weight"} \ DOMAIN stat_values # {}
    THEN [err |-> "KeyError", val |-> Num(0)]
    ELSE IF stat_values["Std Dev"].num = 0
    THEN [err |-> "ZeroDivisionError", val |-> Num(0)]
    ELSE [err |-> "",
          val |-> RMul(RDiv(RAbs(RSub(stat_values["Mean"], value)),
                            stat_values["Std Dev"]),
                       Num(stat_values["Weight"]))]

\* the loop over day_data.items(): the day's event_anomaly and anomaly_sum
RECURSIVE event_anomaly_from(_, _, _, _, _)
event_anomaly_from(day_data, i, st, acc, anomaly_sum) ==
    IF i > Len(day_data) THEN [err |-> "", val |-> acc, sum |-> anomaly_sum]
    ELSE IF day_data[i].key = "Day" \/ ~Has(st, day_data[i].key)
    THEN event_anomaly_from(day_data, i + 1, st, acc, anomaly_sum)
    ELSE Bind(anomaly_score(Get(st, day_data[i].key), day_data[i].val),
              LAMBDA a :
                 IF a.err # "" THEN [err |-> a.err, val |-> acc, sum |-> anomaly_sum]
                 ELSE event_anomaly_from(day_data, i + 1, st,
                          Put(acc, day_data[i].key, a.val),
                          RAdd(anomaly_sum, a.val)))

\* one day of cal_dailycounter
day_anomaly(day_data, st, thr) ==
    IF ~Has(day_data, "Day") THEN [err |-> "KeyError", val |-> <<>>]
    ELSE Bind(event_anomaly_from(day_data, 1, st,
                  <<[key |-> "Day", val |-> RFloor(Get(day_data, "Day"))]>>, Num(0)),
              LAMBDA e :
                 IF e.err # "" THEN [err |-> e.err, val |-> <<>>]
                 ELSE [err |-> "",
                       val |-> Put(Put(e.val, "Total Anomally", e.sum),
                                   "Status", event_flag(e.sum, thr))])

RECURSIVE daily_anomaly_from(_, _, _, _, _)
daily_anomaly_from(log, i, st, thr, acc) ==
    IF i > Len(log) THEN [err |-> "", val |-> acc]
    ELSE Bind(day_anomaly(log[i], st, thr),
              LAMBDA d :
                 IF d.err # "" THEN [err |-> d.err, val |-> <<>>]
                 ELSE daily_anomaly_from(log, i + 1, st, thr, Append(acc, d.val)))

cal_dailycounter(log, st, thr) == daily_anomaly_from(log, 1, st, thr, <<>>)

Min2(a, b) == IF a < b THEN a ELSE b
ContSamples == 0..Min2(MaxRaw, ContPoolMax)
DiscSamples == 0..Min2(MaxRaw, DiscPoolMax)

\* the pools of n raw samples, normalized
ContPools(n) == {normalized(vals) : vals \in [1..n -> ContSamples]}
DiscPools(n) == {normalized(vals) : vals \in [1..n -> DiscSamples]}

-----------------------------------------------------------------------------
(* activity_generator.py *)

\* float(parts[3]) if parts[3] != "0" else None
ParseOptional(text) == IF text.lit # "0" THEN Some(text.val) ELSE None

RECURSIVE parse_basestats_from(_, _, _)
parse_basestats_from(lines, i, acc) ==
    IF i > Len(lines) THEN acc
    ELSE parse_basestats_from(lines, i + 1,
             Put(acc, lines[i].name,
                 [mean |-> lines[i].mean,
                  std_dev |-> lines[i].std,
                  min |-> ParseOptional(lines[i].min),
                  max |-> ParseOptional(lines[i].max),
                  weight |-> lines[i].weight,
                  type |-> lines[i].type]))

parse_basestats(lines) == parse_basestats_from(lines, 1, <<>>)

RMax(a, b) == IF RLess(a, b) THEN b ELSE a
RMin(a, b) == IF RLess(b, a) THEN b ELSE a
\* Python's int() of a number: truncation towards zero
Trunc(a) == IF a.num >= 0 THEN a.num \div a.den ELSE -((-a.num) \div a.den)
\* Python's round(x, ndigits) of a rational x
RoundRat(x, ndigits) == RoundTo(x, 0, Num(0), ndigits)

\* the value of one event for the sample random.gauss(mean, std_dev) returned
activity_value(entry, gauss) ==
    LET min_val == IF entry.min # None THEN entry.min[1] ELSE Num(DefaultMin)
        max_val == IF entry.max # None THEN entry.max[1] ELSE Num(DefaultMax)
    IN  IF entry.type = "C"
        THEN RoundRat(RMax(RMin(gauss, max_val), min_val), RoundDigits)
        ELSE RMax(RMin(RoundRat(gauss, 0), Num(Trunc(max_val))), Num(Trunc(min_val)))

RECURSIVE generate_daily_activity_from(_, _, _, _)
generate_daily_activity_from(bs, i, gauss, acc) ==
    IF i > Len(bs) THEN acc
    ELSE generate_daily_activity_from(bs, i + 1, gauss,
             IF bs[i].val.type \in {"C", "D"}
             THEN Put(acc, bs[i].key, activity_value(bs[i].val, gauss[i]))
             ELSE acc)

\* gauss[i]: the sample drawn for the i-th event of basestats
generate_daily_activity(bs, gauss) == generate_daily_activity_from(bs, 1, gauss, <<>>)

\* gauss[day][i]: the sample drawn on that day for the i-th event
generate_activities(bs, total_days, gauss) ==
    [day \in 1..total_days |-> generate_daily_activity(bs, gauss[day])]

\* event_totals: each event's values across the days, keyed in order of appearance
RECURSIVE event_totals_of_day(_, _, _)
event_totals_of_day(daily_activity, i, acc) ==
    IF i > Len(daily_activity) THEN acc
    ELSE event_totals_of_day(daily_activity, i + 1,
             Put(acc, daily_activity[i].key,
                 IF Has(acc, daily_activity[i].key)
                 THEN Append(Get(acc, daily_activity[i].key), daily_activity[i].val)
                 ELSE <<daily_activity[i].val>>))

RECURSIVE event_totals_from(_, _, _)
event_totals_from(activities, day, acc) ==
    IF day > Len(activities) THEN acc
    ELSE event_totals_from(activities, day + 1,
                           event_totals_of_day(activities[day], 1, acc))

RECURSIVE RSum(_, _)
RSum(values, i) == IF i > Len(values) THEN Num(0) ELSE RAdd(values[i], RSum(values, i + 1))

RECURSIVE RSumSq(_, _)
RSumSq(values, i) ==
    IF i > Len(values) THEN Num(0)
    ELSE RAdd(RMul(values[i], values[i]), RSumSq(values, i + 1))

\* the square of statistics.stdev(values), for two values or more
Variance(values) ==
    Bind(RSum(values, 1),
         LAMBDA total :
            RDiv(RSub(RSumSq(values, 1), RDiv(RMul(total, total), Num(Len(values)))),
                 Num(Len(values) - 1)))

\* round(statistics.mean(values), 2) and
\* round(statistics.stdev(values), 2) if len(values) > 1 else 0.0
analysis_of(values) ==
    [mean |-> RoundRat(RDiv(RSum(values, 1), Num(Len(values))), RoundDigits),
     std_dev |-> IF Len(values) > 1
                 THEN RoundTo(Num(0), 1, Variance(values), RoundDigits)
                 ELSE Num(0)]

RECURSIVE analysis_results_from(_, _, _)
analysis_results_from(totals, i, acc) ==
    IF i > Len(totals) THEN acc
    ELSE analysis_results_from(totals, i + 1,
                               Put(acc, totals[i].key, analysis_of(totals[i].val)))

analyze_activities(activities) ==
    analysis_results_from(event_totals_from(activities, 1, <<>>), 1, <<>>)

-----------------------------------------------------------------------------
(* IDS.py: the steps of a round after the generation *)

\* the event names written into save_event_log, analysis_events and save_dailycounter
HardcodedNames ==
    <<"Logins", "Time online", "Emails sent", "Emails opened", "Emails deleted">>

\* the record has every key the format string of a save reads
HasColumns(record, first) ==
    /\ Has(record, first)
    /\ \A k \in 1..Len(HardcodedNames) : Has(record, HardcodedNames[k])

\* save_event_log: writes nothing for an empty log, else reads event['Day']
\* and the five named events of every record
save_event_log(log) ==
    IF \A i \in 1..Len(log) : HasColumns(log[i], "Day") THEN "" ELSE "KeyError"

\* sum(value for key, value in daily_log.items() if key != 'Day')
RECURSIVE daily_sum(_, _)
daily_sum(daily_log, i) ==
    IF i > Len(daily_log) THEN Num(0)
    ELSE IF daily_log[i].key = "Day" THEN daily_sum(daily_log, i + 1)
    ELSE RAdd(daily_log[i].val, daily_sum(daily_log, i + 1))

RECURSIVE daily_total_from(_, _, _)
daily_total_from(log, i, acc) ==
    IF i > Len(log) THEN acc
    ELSE daily_total_from(log, i + 1,
                          Put(acc, Get(log[i], "Day"), daily_sum(log[i], 1)))

\* event_data[event_name]: the event's value of each day
event_data(log, event_name) == [i \in 1..Len(log) |-> Get(log[i], event_name)]

\* {'Mean': mean, 'Std Dev': round(std_dev, 2), 'Weight': ...}
live_entry(values, weight) ==
    [Mean |-> RDiv(RSum(values, 1), Num(Len(values))),
     Weight |-> weight]
        @@ ("Std Dev" :> RoundTo(Num(0), 1, Variance(values), RoundDigits))

\* the loop over event_data.items()
RECURSIVE event_stats_from(_, _, _, _)
event_stats_from(log, bs, k, acc) ==
    IF k > Len(HardcodedNames) THEN [err |-> "", val |-> acc]
    ELSE IF Len(log) < MinSamples THEN [err |-> "StatisticsError", val |-> <<>>]
    ELSE IF ~Has(bs, HardcodedNames[k]) THEN [err |-> "KeyError", val |-> <<>>]
    ELSE event_stats_from(log, bs, k + 1,
             Put(acc, HardcodedNames[k],
                 live_entry(event_data(log, HardcodedNames[k]),
                            Get(bs, HardcodedNames[k]).Weight)))

\* analysis_events: event_stats and daily_total
analysis_events(log, bs) ==
    IF \E i \in 1..Len(log) : ~HasColumns(log[i], "Day")
    THEN [err |-> "KeyError", val |-> <<>>, daily_total |-> <<>>]
    ELSE Bind(event_stats_from(log, bs, 1, <<>>),
              LAMBDA st :
                 [err |-> st.err,
                  val |-> st.val,
                  daily_total |-> IF st.err = "" THEN daily_total_from(log, 1, <<>>)
                                  ELSE <<>>])

\* save_dailycounter: writes nothing for an empty list, else reads the
\* five named events, the total and the status of every record
save_dailycounter(counters) ==
    IF \A i \in 1..Len(counters) :
          /\ HasColumns(counters[i], "Day")
          /\ Has(counters[i], "Total Anomally")
          /\ Has(counters[i], "Status")
    THEN "" ELSE "KeyError"

-----------------------------------------------------------------------------
(* Actions: the calls of the main flow, in its order *)

\* a single round, with nothing typed at the prompt
NoUserInput ==
    /\ user_input = <<>>
    /\ counter = 0
    /\ daily_total = <<>>

\* activity_generator.py is not run
NoActivityGenerator ==
    /\ basestats_file = <<>>
    /\ ag_basestats = <<>>
    /\ samples = <<>>
    /\ all_activities = <<>>
    /\ analysis_results = <<>>

Init ==
    /\ pc = "parse_events"
    /\ err = ""
    /\ events_file = <<>>
    /\ stats_file = <<>>
    /\ events = <<>>
    /\ stats = <<>>
    /\ inconsistencies = <<>>
    /\ basestats = <<>>
    /\ threshold = 0
    /\ days = 0
    /\ pools = <<>>
    /\ event_log = <<>>
    /\ event_stats = <<>>
    /\ dailycounter = <<>>
    /\ NoActivityGenerator
    /\ NoUserInput

ParseEvents ==
    /\ pc = "parse_events"
    /\ \E file \in EventFiles :
        /\ events_file' = file
        /\ events' = parse_events(file)
    /\ pc' = "parse_stats"
    /\ UNCHANGED <<mainVars, err, stats_file, stats, inconsistencies, basestats, threshold,
                   genVars, scoreVars, agVars>>

ParseStats ==
    /\ pc = "parse_stats"
    /\ \E file \in StatFiles :
        /\ stats_file' = file
        /\ stats' = parse_stats(file)
    /\ pc' = "validate_consistency"
    /\ UNCHANGED <<mainVars, err, events_file, events, inconsistencies, basestats, threshold,
                   genVars, scoreVars, agVars>>

ValidateConsistency ==
    /\ pc = "validate_consistency"
    /\ inconsistencies' = validate_consistency(events, stats)
    /\ pc' = "cal_basestats"
    /\ UNCHANGED <<mainVars, err, events_file, stats_file, events, stats, basestats, threshold,
                   genVars, scoreVars, agVars>>

CalBasestats ==
    /\ pc = "cal_basestats"
    /\ basestats' = cal_basestats(events, stats)
    /\ pc' = "cal_threshold"
    /\ UNCHANGED <<mainVars, err, events_file, stats_file, events, stats, inconsistencies,
                   threshold, genVars, scoreVars, agVars>>

CalThreshold ==
    /\ pc = "cal_threshold"
    /\ threshold' = cal_threshold(basestats)
    /\ pc' = "built"
    /\ UNCHANGED <<mainVars, err, buildVars, genVars, scoreVars, agVars>>

NextBuild ==
    \/ ParseEvents
    \/ ParseStats
    \/ ValidateConsistency
    \/ CalBasestats
    \/ CalThreshold

SpecBuild == Init /\ [][NextBuild]_vars

-----------------------------------------------------------------------------
(* The generator on the Baselines of a full catalog *)

GenCatalog ==
    << [name |-> "Logins", type |-> "D", min |-> Some(Num(3)), max |-> Some(Num(5)),
        weight |-> 3],
       [name |-> "Time online", type |-> "C", min |-> Some(Num(4)),
        max |-> Some(Num(6)), weight |-> 2] >>

GenStatLines ==
    { [name |-> "Logins", mean |-> Num(4), std |-> Rat(3, 2)],
      [name |-> "Logins", mean |-> Rat(9, 2), std |-> Num(0)],
      [name |-> "Logins", mean |-> Num(5), std |-> Num(0)],
      [name |-> "Time online", mean |-> Num(5), std |-> Num(1)],
      [name |-> "Time online", mean |-> Rat(25, 8), std |-> Num(0)],
      [name |-> "Time online", mean |-> Rat(5, 2), std |-> Num(0)] }

GenStatFiles == DistinctSeqs(GenStatLines, MaxLines)

InitGen ==
    /\ pc = "generate_event_data"
    /\ err = ""
    /\ events_file = GenCatalog
    /\ events = parse_events(GenCatalog)
    /\ \E file \in GenStatFiles :
        /\ stats_file = file
        /\ stats = parse_stats(file)
        /\ inconsistencies = validate_consistency(parse_events(GenCatalog), parse_stats(file))
        /\ basestats = cal_basestats(parse_events(GenCatalog), parse_stats(file))
    /\ threshold = 0
    /\ days \in 1..MaxDays
    /\ pools = <<>>
    /\ event_log = <<>>
    /\ event_stats = <<>>
    /\ dailycounter = <<>>
    /\ NoActivityGenerator
    /\ NoUserInput

GenerateEventData ==
    /\ pc = "generate_event_data"
    /\ \E disc \in DiscPools(days), cont \in ContPools(days) :
        \E r \in {generate_event_data(basestats, days, disc, cont)} :
            /\ err' = r.err
            /\ pools' = [disc |-> disc, cont |-> cont]
            /\ event_log' = r.val
            /\ pc' = IF r.err = "" THEN "analysis_events" ELSE "failed"
    /\ UNCHANGED <<mainVars, buildVars, threshold, days, scoreVars, agVars>>

(* activity_generator.py's main flow *)

Zero == [lit |-> "0", val |-> Num(0)]
Text(v) == [lit |-> "number", val |-> v]

ActivityLines ==
    { [name |-> "Logins", mean |-> Num(4), std |-> Rat(3, 2), min |-> Text(Num(3)),
       max |-> Text(Num(5)), weight |-> 3, type |-> "D"],
      [name |-> "Logins", mean |-> Num(4), std |-> Rat(3, 2), min |-> Zero,
       max |-> Zero, weight |-> 3, type |-> "D"],
      [name |-> "Time online", mean |-> Num(5), std |-> Num(1), min |-> Text(Num(4)),
       max |-> Text(Num(6)), weight |-> 2, type |-> "C"] }

\* random.gauss(mean, std_dev) returns mean + g * std_dev for a g of
GaussDraws == {-2, 0, 2}

InitActivities ==
    /\ pc = "parse_basestats"
    /\ err = ""
    /\ events_file = <<>>
    /\ stats_file = <<>>
    /\ events = <<>>
    /\ stats = <<>>
    /\ inconsistencies = <<>>
    /\ basestats = <<>>
    /\ threshold = 0
    /\ days \in 1..MaxDays
    /\ pools = <<>>
    /\ event_log = <<>>
    /\ event_stats = <<>>
    /\ dailycounter = <<>>
    /\ NoActivityGenerator
    /\ NoUserInput

ParseBasestats ==
    /\ pc = "parse_basestats"
    /\ \E file \in DistinctSeqs(ActivityLines, MaxLines) :
        /\ basestats_file' = file
        /\ ag_basestats' = parse_basestats(file)
    /\ pc' = "generate_activities"
    /\ UNCHANGED <<mainVars, err, buildVars, threshold, genVars, scoreVars, samples,
                   all_activities, analysis_results>>

GenerateActivities ==
    /\ pc = "generate_activities"
    /\ \E g \in [1..days -> [1..Len(ag_basestats) -> GaussDraws]] :
        \E gauss \in {[day \in 1..days |-> [i \in 1..Len(ag_basestats) |->
                          RAdd(ag_basestats[i].val.mean,
                               RMul(Num(g[day][i]), ag_basestats[i].val.std_dev))]]} :
            /\ samples' = gauss
            /\ all_activities' = generate_activities(ag_basestats, days, gauss)
    /\ pc' = "analyze_activities"
    /\ UNCHANGED <<mainVars, err, buildVars, threshold, genVars, scoreVars, basestats_file,
                   ag_basestats, analysis_results>>

AnalyzeActivities ==
    /\ pc = "analyze_activities"
    /\ analysis_results' = analyze_activities(all_activities)
    /\ pc' = "analyzed"
    /\ UNCHANGED <<mainVars, err, buildVars, threshold, genVars, scoreVars, basestats_file,
                   ag_basestats, samples, all_activities>>

NextGen ==
    \/ GenerateEventData
    \/ ParseBasestats
    \/ GenerateActivities
    \/ AnalyzeActivities

\* the generators of both scripts
SpecGen == (InitGen \/ InitActivities) /\ [][NextGen]_vars

-----------------------------------------------------------------------------
(* The scorer on small logs and statistics *)

ScoreNames == {"Logins", "Time online"}

\* (mean, standard deviation, weight) of an event of the statistics source
ScoreProfiles == { <<Num(5), Num(1), 1>>, <<Num(5), Num(0), 1>>, <<Num(4), Rat(1, 2), 2>> }

ScoreLines ==
    {[name |-> n, mean |-> p[1], std |-> p[2], weight |-> p[3]] :
        n \in ScoreNames, p \in ScoreProfiles}

\* a statistics source with the keys analysis_events gives its result
live_stats(lines) ==
    [i \in DOMAIN lines |->
        [key |-> lines[i].name,
         val |-> [Mean |-> lines[i].mean, Weight |-> lines[i].weight]
                    @@ ("Std Dev" :> lines[i].std)]]

ScoreValues == {Num(6), Num(7), Num(8)}

\* the DailyRecords of the given day, as generate_event_data builds them
DayRecords(day) ==
    {<<[key |-> "Day", val |-> Num(day)],
       [key |-> "Logins", val |-> v],
       [key |-> "Time online", val |-> w]>> : v \in ScoreValues, w \in ScoreValues}

ScoreLogs(n) == {log \in [1..n -> UNION {DayRecords(d) : d \in 1..n}] :
                    \A d \in 1..n : log[d] \in DayRecords(d)}

InitScore ==
    /\ pc = "cal_dailycounter"
    /\ err = ""
    /\ events_file = <<>>
    /\ stats_file = <<>>
    /\ events = <<>>
    /\ stats = <<>>
    /\ inconsistencies = <<>>
    /\ basestats = <<>>
    /\ \E lines \in DistinctSeqs(ScoreLines, MaxLines) :
        /\ event_stats = live_stats(lines)
        /\ threshold = cal_threshold(live_stats(lines))
    /\ days \in 1..MaxScoreDays
    /\ pools = <<>>
    /\ event_log \in ScoreLogs(days)
    /\ dailycounter = <<>>
    /\ NoActivityGenerator
    /\ NoUserInput

CalDailycounter ==
    /\ pc = "cal_dailycounter"
    /\ \E r \in {cal_dailycounter(event_log, event_stats, threshold)} :
        /\ err' = r.err
        /\ dailycounter' = r.val
        /\ pc' = IF r.err = "" THEN "scored" ELSE "failed"
    /\ UNCHANGED <<mainVars, buildVars, threshold, genVars, event_stats, agVars>>

NextScore == CalDailycounter

SpecScore == InitScore /\ [][NextScore]_vars

(* The scorer handed the Baseline itself as its statistics source *)

BaselineStatLines ==
    { [name |-> "Logins", mean |-> Num(5), std |-> Num(1)],
      [name |-> "Time online", mean |-> Num(4), std |-> Rat(1, 2)] }

InitScoreBaseline ==
    /\ pc = "cal_dailycounter"
    /\ err = ""
    /\ events_file = GenCatalog
    /\ events = parse_events(GenCatalog)
    /\ \E file \in DistinctSeqs(BaselineStatLines, MaxLines) :
        /\ stats_file = file
        /\ stats = parse_stats(file)
        /\ basestats = cal_basestats(parse_events(GenCatalog), parse_stats(file))
        /\ event_stats = cal_basestats(parse_events(GenCatalog), parse_stats(file))
        /\ threshold = cal_threshold(cal_basestats(parse_events(GenCatalog),
                                                   parse_stats(file)))
    /\ inconsistencies = <<>>
    /\ days \in 1..MaxScoreDays
    /\ pools = <<>>
    /\ event_log \in ScoreLogs(days)
    /\ dailycounter = <<>>
    /\ NoActivityGenerator
    /\ NoUserInput

\* the scorer on either statistics source
SpecSources == (InitScore \/ InitScoreBaseline) /\ [][NextScore]_vars

-----------------------------------------------------------------------------
(* The main flow of IDS.py: the first round on the files of the command    *)
(* line, then one round for every statistics file typed at the prompt      *)

FiveEvents ==
    << [name |-> "Logins", type |-> "D", min |-> Some(Num(0)), max |-> None,
        weight |-> 1],
       [name |-> "Time online", type |-> "C", min |-> Some(Num(0)),
        max |-> Some(Num(24)), weight |-> 2],
       [name |-> "Emails sent", type |-> "D", min |-> Some(Num(0)), max |-> None,
        weight |-> 1],
       [name |-> "Emails opened", type |-> "D", min |-> Some(Num(0)), max |-> None,
        weight |-> 1],
       [name |-> "Emails deleted", type |-> "D", min |-> Some(Num(0)), max |-> None,
        weight |-> 1] >>

Downloads ==
    [name |-> "Downloads", type |-> "D", min |-> Some(Num(0)), max |-> None, weight |-> 2]

\* a catalog of the five usual events, one with a sixth, one without the fifth
MainCatalogs == {FiveEvents, Append(FiveEvents, Downloads), SubSeq(FiveEvents, 1, 4)}

FiveStats ==
    << [name |-> "Logins", mean |-> Num(4), std |-> Num(1)],
       [name |-> "Time online", mean |-> Num(5), std |-> Rat(1, 2)],
       [name |-> "Emails sent", mean |-> Num(10), std |-> Num(2)],
       [name |-> "Emails opened", mean |-> Num(12), std |-> Num(1)],
       [name |-> "Emails deleted", mean |-> Num(7), std |-> Num(1)] >>

\* statistics of the five events, of six, of four, and of five with one constant
MainStatFiles ==
    {FiveStats,
     Append(FiveStats, [name |-> "Downloads", mean |-> Num(3), std |-> Num(1)]),
     SubSeq(FiveStats, 1, 4),
     <<[name |-> "Logins", mean |-> Num(4), std |-> Num(0)]>> \o SubSeq(FiveStats, 2, 5)}

\* the numbers of days given on the command line or typed at the prompt
MainDays == {1, 2}

\* what the user types: 'q' at once, or one more round and then 'q'
UserScripts ==
    {<<>>} \cup {<<[stats_file |-> f, days |-> d]>> : f \in MainStatFiles, d \in MainDays}

InitMain ==
    /\ pc = "parse_events"
    /\ err = ""
    /\ events_file \in MainCatalogs
    /\ stats_file \in MainStatFiles
    /\ days \in MainDays
    /\ user_input \in UserScripts
    /\ counter = 0
    /\ events = <<>>
    /\ stats = <<>>
    /\ inconsistencies = <<>>
    /\ basestats = <<>>
    /\ threshold = 0
    /\ pools = <<>>
    /\ event_log = <<>>
    /\ event_stats = <<>>
    /\ daily_total = <<>>
    /\ dailycounter = <<>>
    /\ NoActivityGenerator

\* events = parse_events(events_file)
MainParseEvents ==
    /\ pc = "parse_events"
    /\ events' = parse_events(events_file)
    /\ pc' = "parse_stats"
    /\ UNCHANGED <<err, events_file, stats_file, stats, inconsistencies, basestats,
                   threshold, genVars, scoreVars, agVars, mainVars>>

\* stats = parse_stats(stats_file), of the first round
MainParseStats ==
    /\ pc = "parse_stats"
    /\ stats' = parse_stats(stats_file)
    /\ pc' = "validate_consistency"
    /\ UNCHANGED <<err, events_file, stats_file, events, inconsistencies, basestats,
                   threshold, genVars, scoreVars, agVars, mainVars>>

\* inconsistencies = validate_consistency(events, stats)
MainValidateConsistency ==
    /\ pc = "validate_consistency"
    /\ inconsistencies' = validate_consistency(events, stats)
    /\ pc' = "cal_basestats"
    /\ UNCHANGED <<err, events_file, stats_file, events, stats, basestats,
                   threshold, genVars, scoreVars, agVars, mainVars>>

\* basestats = cal_basestats(events, stats); save_basestats(basestats)
MainCalBasestats ==
    /\ pc = "cal_basestats"
    /\ basestats' = cal_basestats(events, stats)
    /\ pc' = "generate_event_data"
    /\ UNCHANGED <<err, events_file, stats_file, events, stats, inconsistencies,
                   threshold, genVars, scoreVars, agVars, mainVars>>

\* event_log = generate_event_data(basestats, days)
MainGenerateEventData ==
    /\ pc = "generate_event_data"
    /\ \E disc \in DiscPools(days), cont \in ContPools(days) :
        \E r \in {generate_event_data(basestats, days, disc, cont)} :
            /\ pools' = [disc |-> disc, cont |-> cont]
            /\ IF r.err = ""
               THEN /\ event_log' = r.val
                    /\ pc' = "save_event_log"
                    /\ err' = err
               ELSE /\ event_log' = event_log
                    /\ pc' = "failed"
                    /\ err' = r.err
    /\ UNCHANGED <<buildVars, threshold, days, scoreVars, agVars, mainVars>>

\* save_event_log(event_log)
MainSaveEventLog ==
    /\ pc = "save_event_log"
    /\ err' = save_event_log(event_log)
    /\ pc' = IF save_event_log(event_log) = "" THEN "analysis_events" ELSE "failed"
    /\ UNCHANGED <<buildVars, threshold, genVars, scoreVars, agVars, mainVars>>

\* event_stats, daily_total = analysis_events(event_log, basestats) and the saves
MainAnalysisEvents ==
    /\ pc = "analysis_events"
    /\ \E r \in {analysis_events(event_log, basestats)} :
        IF r.err = ""
        THEN /\ event_stats' = r.val
             /\ daily_total' = r.daily_total
             /\ pc' = "cal_threshold"
             /\ err' = err
        ELSE /\ UNCHANGED <<event_stats, daily_total>>
             /\ pc' = "failed"
             /\ err' = r.err
    /\ UNCHANGED <<buildVars, threshold, genVars, dailycounter, agVars, user_input,
                   counter>>

\* threshold = cal_threshold(event_stats)
MainCalThreshold ==
    /\ pc = "cal_threshold"
    /\ threshold' = cal_threshold(event_stats)
    /\ pc' = "cal_dailycounter"
    /\ UNCHANGED <<err, buildVars, genVars, scoreVars, agVars, mainVars>>

\* dailycounter = cal_dailycounter(event_log, event_stats, threshold),
\* save_dailycounter(dailycounter, threshold) and counter = counter + 1
MainCalDailycounter ==
    /\ pc = "cal_dailycounter"
    /\ \E r \in {cal_dailycounter(event_log, event_stats, threshold)} :
        IF r.err # ""
        THEN /\ err' = r.err
             /\ pc' = "failed"
             /\ UNCHANGED <<dailycounter, counter>>
        ELSE /\ dailycounter' = r.val
             /\ IF save_dailycounter(r.val) = ""
                THEN /\ counter' = counter + 1
                     /\ pc' = "input"
                     /\ err' = err
                ELSE /\ counter' = counter
                     /\ pc' = "failed"
                     /\ err' = save_dailycounter(r.val)
    /\ UNCHANGED <<buildVars, threshold, genVars, event_stats, agVars, user_input,
                   daily_total>>

\* the user types 'q'
MainQuit ==
    /\ pc = "input"
    /\ user_input = <<>>
    /\ pc' = "exit"
    /\ UNCHANGED <<err, buildVars, threshold, genVars, scoreVars, agVars, mainVars>>

\* the user asks for a round: the new statistics file and number of days are
\* read, stats = parse_stats(new_statsfile)
MainNewStats ==
    /\ pc = "input"
    /\ user_input # <<>>
    /\ stats_file' = Head(user_input).stats_file
    /\ days' = Head(user_input).days
    /\ stats' = parse_stats(Head(user_input).stats_file)
    /\ user_input' = Tail(user_input)
    /\ pc' = "cal_basestats"
    /\ UNCHANGED <<err, events_file, events, inconsistencies, basestats, threshold,
                   pools, event_log, scoreVars, agVars, counter, daily_total>>

Next ==
    \/ MainParseEvents
    \/ MainParseStats
    \/ MainValidateConsistency
    \/ MainCalBasestats
    \/ MainGenerateEventData
    \/ MainSaveEventLog
    \/ MainAnalysisEvents
    \/ MainCalThreshold
    \/ MainCalDailycounter
    \/ MainQuit
    \/ MainNewStats

Spec == InitMain /\ [][Next]_vars

-----------------------------------------------------------------------------
(* Claims about the Baseline and the validator, under SpecBuild *)

CommonNames == Keys(events) \cap Keys(stats)

\* sum of the catalog weights of the names in S
RECURSIVE CatalogWeights(_)
CatalogWeights(S) ==
    IF S = {} THEN 0
    ELSE LET x == CHOOSE y \in S : TRUE
         IN  Get(events, x).Weight + CatalogWeights(S \ {x})

Reordered(d, p) == [i \in DOMAIN d |-> d[p[i]]]
Range(q) == {q[i] : i \in DOMAIN q}
MismatchCount == Cardinality({i \in DOMAIN inconsistencies : inconsistencies[i] = MismatchMessage})
Validated == pc \in {"cal_basestats", "cal_threshold", "built"}
Merged == pc \in {"cal_threshold", "built"}

\* C1: the threshold of the merged Baseline is twice the sum of the weights of
\* exactly the events in it (0 for an empty Baseline), whatever the order in
\* which the Baseline is iterated.
C1_ThresholdIsTwiceWeights ==
    pc = "built" =>
        /\ threshold = 2 * CatalogWeights(CommonNames)
        /\ \A p \in Permutations(DOMAIN basestats) :
               cal_threshold(Reordered(basestats, p)) = threshold
        /\ (basestats = <<>> => threshold = 0)

C1_Witness ==
    /\ pc = "built"
    /\ Len(basestats) = 2
    /\ basestats[1].val.Weight # basestats[2].val.Weight
    /\ threshold = 2 * (basestats[1].val.Weight + basestats[2].val.Weight)

\* C2: an event name has a Baseline entry iff it is a key of both the catalog
\* and the statistics table; the entry carries mean and stdDev of the
\* statistics table and min, max, weight and kind of the catalog.
C2_BaselineIsIntersection ==
    Merged =>
        /\ Keys(basestats) = CommonNames
        /\ Len(basestats) = Cardinality(CommonNames)
        /\ \A n \in Keys(basestats) :
              /\ Get(basestats, n).Mean = Get(stats, n).Mean
              /\ Get(basestats, n).Std_dev = Get(stats, n).Std_dev
              /\ Get(basestats, n).Min = Get(events, n).Min
              /\ Get(basestats, n).Max = Get(events, n).Max
              /\ Get(basestats, n).Weight = Get(events, n).Weight
              /\ Get(basestats, n).Type = Get(events, n).Type

C2_Witness ==
    /\ Merged
    /\ Keys(events) \ Keys(stats) # {}
    /\ Keys(stats) \ Keys(events) # {}
    /\ \E n \in Keys(basestats) : Get(basestats, n).Min # Get(basestats, n).Max

\* C6: the validator returns exactly one name-mismatch message when the two
\* name sets differ, however many names are missing, and none when they are
\* equal; the mismatch message precedes every range message.
C6_OneMismatchMessage ==
    Validated =>
        /\ (Keys(events) # Keys(stats) =>
               MismatchCount = 1 /\ inconsistencies[1] = MismatchMessage)
        /\ (Keys(events) = Keys(stats) => MismatchCount = 0)

C6_Witness ==
    /\ Validated
    /\ Cardinality(Keys(events) \ Keys(stats)) + Cardinality(Keys(stats) \ Keys(events)) >= 2
    /\ Len(inconsistencies) >= 2

\* C7 (as claimed): a Continuous event whose min or max is absent in the
\* event-definition file never gets a mean-out-of-range message; a range
\* message is produced only for an event both of whose bounds were given in
\* the file and whose mean lies outside [min, max].
C7_AbsentBoundNeverOutOfRange ==
    Validated =>
        \A i \in DOMAIN events_file :
            LET line == events_file[i]
            IN  RangeMessage(line.name) \in Range(inconsistencies) =>
                    /\ line.type = "C"
                    /\ line.min # <<>>
                    /\ line.max # <<>>
                    /\ \/ RLess(Get(stats, line.name).Mean, line.min[1])
                       \/ RLess(line.max[1], Get(stats, line.name).Mean)

-----------------------------------------------------------------------------
(* Claims about the generators, checked under SpecGen *)

\* generate_event_data has returned a log
Generated == pc = "analysis_events"

\* the events of the Baseline whose Std_dev is 0
ConstantEvents == {i \in 1..Len(basestats) : basestats[i].val.Std_dev = Num(0)}

\* v is x rounded to ndigits decimals, ties to the even last digit
IsRounding(v, x, ndigits) ==
    LET scaled == RMul(v, Num(Pow10(ndigits)))
        gap == RAbs(RSub(v, x))
        half == Rat(1, 2 * Pow10(ndigits))
    IN  /\ IsInt(scaled)
        /\ RLeq(gap, half)
        /\ gap = half => scaled.num % 2 = 0

(* C5: with a single day, the generator and the recomputer of live         *)
(* statistics of both scripts fail for want of samples: IDS.py's generator *)
(* raises StatisticsError and returns no log, and activity_generator.py,   *)
(* given events to generate, ends without activities or statistics.        *)
C5_SingleDayIsInsufficient ==
    days = 1 =>
        /\ ~Generated
        /\ pc = "failed" => err = "StatisticsError" /\ event_log = <<>>
        /\ pc = "analyzed" /\ ag_basestats # <<>> =>
            all_activities = <<>> /\ analysis_results = <<>>

(* C8: for every Baseline, an empty one included, and two days or more, a  *)
(* returned log has one record per day, the i-th carrying day number i and *)
(* one value per event of the Baseline.                                    *)
C8_OneNumberedRecordPerDay ==
    Generated /\ days >= 2 =>
        /\ Len(event_log) = days
        /\ \A i \in 1..Len(event_log) :
            /\ Has(event_log[i], "Day")
            /\ Get(event_log[i], "Day") = Num(i)
            /\ Keys(event_log[i]) \ {"Day"} = Keys(basestats)

(* C9, as stated: every generated value of an event whose Std_dev is 0     *)
(* equals the event's mean exactly.                                        *)
C9_ConstantEventEqualsMean ==
    Generated =>
        \A day \in 1..Len(event_log), i \in ConstantEvents :
            Get(event_log[day], basestats[i].key) = basestats[i].val.Mean

(* C9, amended: every generated value of an event whose Std_dev is 0 is    *)
(* the event's mean rounded, ties to even, to 2 decimals for a Continuous  *)
(* event and to an integer for a Discrete one, whatever the pools drawn;   *)
(* it is the mean itself exactly when the mean has that precision.         *)
C9_ConstantEventEqualsRoundedMean ==
    Generated =>
        \A day \in 1..Len(event_log), i \in ConstantEvents :
            LET entry == basestats[i].val
                value == Get(event_log[day], basestats[i].key)
                ndigits == IF entry.Type = "C" THEN 2 ELSE 0
            IN  /\ IsRounding(value, entry.Mean, ndigits)
                /\ value = entry.Mean <=> IsInt(RMul(entry.Mean, Num(Pow10(ndigits))))

\* a log with a constant event off its mean and another one on its mean
C9_Witness ==
    /\ Generated
    /\ days >= 2
    /\ \E i, j \in ConstantEvents :
        /\ Get(event_log[days], basestats[i].key) # basestats[i].val.Mean
        /\ Get(event_log[days], basestats[j].key) = basestats[j].val.Mean

(* C10: generation never clamps. Every generated value is the rounded      *)
(* image of the day's sample, whatever the event's min and max: in IDS.py  *)
(* round(zscore * Std_dev + Mean), in activity_generator.py the rounded    *)
(* sample of random.gauss.                                                 *)
C10_GenerationNeverClamps ==
    /\ Generated =>
        \A day \in 1..Len(event_log), i \in 1..Len(basestats) :
            LET entry == basestats[i].val
                z == IF entry.Type = "C" THEN pools.cont.z[day] ELSE pools.disc.z[day]
            IN  Get(event_log[day], basestats[i].key) =
                    RoundTo(entry.Mean, z.sgn * RSign(entry.Std_dev),
                            RMul(RMul(entry.Std_dev, entry.Std_dev), z.sq),
                            IF entry.Type = "C" THEN 2 ELSE 0)
    /\ pc \in {"analyze_activities", "analyzed"} =>
        \A day \in 1..Len(all_activities), i \in 1..Len(ag_basestats) :
            Get(all_activities[day], ag_basestats[i].key) =
                RoundRat(samples[day][i], IF ag_basestats[i].val.type = "C" THEN 2 ELSE 0)

-----------------------------------------------------------------------------
(* Claims about the scorer, under SpecScore *)

\* the events of a DailyRecord that the statistics source knows
ScoredNames(day_data) == (Keys(day_data) \ {"Day"}) \cap Keys(event_stats)

\* |mean - value| / stdDev * weight summed over the names in S, in any order
RECURSIVE TotalOver(_, _)
TotalOver(day_data, S) ==
    IF S = {} THEN Num(0)
    ELSE LET n == CHOOSE m \in S : TRUE
             st == Get(event_stats, n)
         IN  RAdd(RMul(RDiv(RAbs(RSub(st["Mean"], Get(day_data, n))), st["Std Dev"]),
                       Num(st["Weight"])),
                  TotalOver(day_data, S \ {n}))

\* C3: a scored day is Flagged iff its total anomaly score is strictly greater
\* than the threshold; a total equal to the threshold is not flagged.
C3_FlaggedIffAboveThreshold ==
    pc = "scored" =>
        /\ Len(dailycounter) = Len(event_log)
        /\ \A i \in DOMAIN dailycounter :
              LET total == TotalOver(event_log[i], ScoredNames(event_log[i]))
              IN  /\ Get(dailycounter[i], "Total Anomally") = total
                  /\ Get(dailycounter[i], "Status") = "Flagged"
                        <=> RLess(Num(threshold), total)
                  /\ Get(dailycounter[i], "Status") \in {"Flagged", "Okay"}

\* mean 5, stdDev 1, weight 1, threshold 2: value 8 is Flagged, values 7 (a
\* total equal to the threshold) and 6 are not
C3_Witness ==
    /\ pc = "scored"
    /\ Keys(event_stats) = {"Logins"}
    /\ Get(event_stats, "Logins") = [Mean |-> Num(5), Weight |-> 1] @@ ("Std Dev" :> Num(1))
    /\ threshold = 2
    /\ Len(event_log) = 2
    /\ Get(event_log[1], "Logins") = Num(8)
    /\ Get(dailycounter[1], "Status") = "Flagged"
    /\ Get(event_log[2], "Logins") = Num(7)
    /\ Get(dailycounter[2], "Total Anomally") = Num(threshold)
    /\ Get(dailycounter[2], "Status") = "Okay"

\* C4 (as claimed): an event whose statistic has stdDev 0 scores 0 on every
\* day, and the scoring completes without a division failure.
C4_ZeroStdDevScoresZero ==
    (pc = "failed" \/ pc = "scored") =>
        /\ err # "ZeroDivisionError"
        /\ \A i \in DOMAIN dailycounter : \A n \in ScoredNames(event_log[i]) :
              Get(event_stats, n)["Std Dev"] = Num(0) => Get(dailycounter[i], n) = Num(0)

-----------------------------------------------------------------------------
(* Claims about the scorer's statistics sources, under SpecSources *)

\* the standard deviation of a statistic, under the key its source gives it
StdDevOf(stat_values) ==
    IF "Std Dev" \in DOMAIN stat_values THEN stat_values["Std Dev"]
    ELSE stat_values["Std_dev"]

(* C11: the scorer accepts either statistics source. Given the Baseline or *)
(* the live statistics, with no standard deviation of 0, it scores every   *)
(* day and gives each known event |mean - value| / stdDev * weight with    *)
(* the mean, stdDev and weight read from that source.                      *)
C11_ScorerAcceptsEitherSource ==
    (pc \in {"scored", "failed"}
        /\ \A i \in 1..Len(event_stats) : StdDevOf(event_stats[i].val) # Num(0)) =>
        /\ err = ""
        /\ Len(dailycounter) = Len(event_log)
        /\ \A i \in 1..Len(dailycounter) : \A n \in ScoredNames(event_log[i]) :
              Get(dailycounter[i], n) =
                  RMul(RDiv(RAbs(RSub(Get(event_stats, n).Mean, Get(event_log[i], n))),
                            StdDevOf(Get(event_stats, n))),
                       Num(Get(event_stats, n).Weight))

-----------------------------------------------------------------------------
(* Claims about the rounds of the main flow, under Spec *)

\* a round has been scored and saved
RoundDone == pc \in {"input", "exit"}

(* C12: an event name missing from one of the lookups of a merge or        *)
(* scoring step is skipped and aborts nothing. A round on a catalog and a  *)
(* statistics table with a common event is never ended by the lookup of a  *)
(* name, and once done it has one AnomalyRecord per generated day.         *)
C12_MissingEventIsSkipped ==
    CommonNames # {} =>
        /\ err # "KeyError"
        /\ RoundDone => Len(dailycounter) = days /\ Len(event_log) = days

(* C15: in every round the validator has been run on the round's catalog   *)
(* and statistics by the time the round's Baseline is built and events are *)
(* generated from it: the inconsistencies on record are those of the pair  *)
(* the Baseline was merged from.                                           *)
C15_EveryRoundIsValidated ==
    pc = "generate_event_data" =>
        inconsistencies = validate_consistency(events, stats)

(* C16: in every round that reaches scoring, the threshold the days are    *)
(* classified with is the Baseline threshold of the round, twice the sum   *)
(* of the weights of all the events of the round's Baseline.               *)
C16_ScoringThresholdIsBaselineThreshold ==
    pc = "cal_dailycounter" =>
        /\ threshold = cal_threshold(basestats)
        /\ threshold = 2 * CatalogWeights(Keys(basestats))

-----------------------------------------------------------------------------
(* Claims about the generator's random samples, under SpecGen *)

\* generate_event_data has returned or raised
GenerationEnded == pc \in {"analysis_events", "failed"}

(* C13: the generator is deterministic in what its caller fixes. It takes  *)
(* the Baseline and the number of days and no seed, so two runs on the     *)
(* same Baseline and days, two days or more, end alike: whatever pools the *)
(* module's generator deals, the outcome is the one on record.             *)
C13_GenerationIsReproducible ==
    GenerationEnded /\ days >= 2 =>
        \A disc \in DiscPools(days), cont \in ContPools(days) :
            generate_event_data(basestats, days, disc, cont) =
                [err |-> err, val |-> event_log]

(* C14: with two days or more, whatever samples are drawn, the standard    *)
(* deviation of neither pool is 0: no z-score of an event divides by 0 and *)
(* the generator does not fail.                                            *)
C14_PoolStdDevIsNotZero ==
    GenerationEnded /\ days >= 2 =>
        /\ err = ""
        /\ \A day \in 1..days, i \in 1..Len(basestats) :
            IF basestats[i].val.Type = "C" THEN pools.cont.z[day].err = ""
            ELSE pools.disc.z[day].err = ""

====
